---- MODULE Spec2Model ----
(***************************************************************************)
(* Model of execution-engine/comm/src/main.rs: the start-up sequence of    *)
(* the Execution Engine gRPC server.  The main thread is a step machine    *)
(* (pc); the file system, the LMDB store on disk, the lazily initialised   *)
(* statics, the panic hook and the log are its state.                      *)
(***************************************************************************)
EXTENDS Integers, Sequences, FiniteSets, TLC

(* Option<T>: None is the empty tuple, Some(x) the one-element tuple.      *)
None == <<>>
Some(x) == <<x>>
IsSome(o) == o # <<>>
Unwrap(o) == o[1]

(* ------------------------------ constants ------------------------------ *)
PROC_NAME == "casperlabs-engine-grpc-server"
SERVER_START_MESSAGE == "starting Execution Engine Server"
SERVER_LISTENING_TEMPLATE == "{listener} is listening on socket: {socket}"
SERVER_START_EXPECT == "failed to start Execution Engine Server"
SERVER_STOP_MESSAGE == "stopping Execution Engine Server"
DEFAULT_DATA_DIR_RELATIVE == ".casperlabs"
GLOBAL_STATE_DIR == "global_state"
GET_HOME_DIR_EXPECT == "Could not get home directory"
CREATE_DATA_DIR_EXPECT == "Could not create directory"
LMDB_ENVIRONMENT_EXPECT == "Could not create LmdbEnvironment"
LMDB_TRIE_STORE_EXPECT == "Could not create LmdbTrieStore"
LMDB_GLOBAL_STATE_EXPECT == "Could not create LmdbGlobalState"
ARG_SOCKET_EXPECT == "socket required"
REMOVING_SOCKET_FILE_MESSAGE == "removing old socket file"
REMOVING_SOCKET_FILE_EXPECT == "failed to remove old socket file"

(* the seed address [48u8; 20] *)
SeedByte == 48
AddrLen == 20

(* ------------------------------- bounds -------------------------------- *)
(* panics of request-handling threads that the model lets happen *)
MaxHandlerPanics == 1
(* returns of std::thread::park (spurious wake-ups, unparks) the model follows *)
MaxWakeups == 2
(* calls a unit run of the pure functions makes *)
MaxCalls == 2

(* ------------------------------- inputs -------------------------------- *)
(* Paths are sequences of components; <<>> is the root.                    *)
SocketPath == <<"tmp", "sock">>
HomePath == <<"home", "u">>
Homes == {None, Some(HomePath)}
DataDirArgs == {None, Some(<<"tmp", "x">>), Some(<<"data">>)}
LogLevelTokens == {"fatal", "error", "warning", "debug", "info", "Fatal", "DEBUG", "trace", ""}
LogLevelInputs == {None} \cup {Some(t) : t \in LogLevelTokens}

(* the command lines, as clap sees them: a valid one carries the socket    *)
(* and --loglevel and no flag clap does not know; the invalid ones lack    *)
(* --loglevel, lack the socket, or carry a malformed flag                  *)
ValidArgv ==
    { [malformed |-> FALSE, socket |-> Some(SocketPath), loglevel |-> Some(t), data_dir |-> d] :
        t \in LogLevelTokens, d \in DataDirArgs }
InvalidArgv ==
    { [malformed |-> FALSE, socket |-> Some(SocketPath), loglevel |-> None, data_dir |-> None],
      [malformed |-> FALSE, socket |-> None, loglevel |-> Some("info"), data_dir |-> None],
      [malformed |-> TRUE, socket |-> Some(SocketPath), loglevel |-> Some("info"),
       data_dir |-> None] }
Argvs == ValidArgv \cup InvalidArgv

(* ----------------------------- file system ----------------------------- *)
Parent(p) == SubSeq(p, 1, Len(p) - 1)
Prefixes(p) == { SubSeq(p, 1, k) : k \in 0..Len(p) }

RECURSIVE PathStr(_)
PathStr(p) == IF Len(p) = 0 THEN "" ELSE PathStr(Parent(p)) \o "/" \o p[Len(p)]

BaseDirs == { <<>>, <<"home">>, HomePath, <<"tmp">> }
DataPaths ==
    { <<"tmp", "x">>, <<"tmp", "x", GLOBAL_STATE_DIR>>,
      <<"data">>, <<"data", GLOBAL_STATE_DIR>>,
      HomePath \o <<DEFAULT_DATA_DIR_RELATIVE>>,
      HomePath \o <<DEFAULT_DATA_DIR_RELATIVE, GLOBAL_STATE_DIR>> }

(* the file systems a run may start on: dirs is closed under parents, ro   *)
(* are the directories in which nothing can be created or removed          *)
FsFresh == [dirs |-> BaseDirs, files |-> {}, ro |-> {}]
FsPrior == [dirs |-> BaseDirs \cup DataPaths, files |-> {}, ro |-> {}]
FsReadOnly == [dirs |-> BaseDirs, files |-> {}, ro |-> {<<>>, <<"tmp">>, HomePath}]
FsFileInWay ==
    [dirs |-> BaseDirs \cup {<<"tmp", "x">>, HomePath \o <<DEFAULT_DATA_DIR_RELATIVE>>},
     files |-> { <<"data">>, <<"tmp", "x", GLOBAL_STATE_DIR>>,
                 HomePath \o <<DEFAULT_DATA_DIR_RELATIVE, GLOBAL_STATE_DIR>> },
     ro |-> {}]
BaseFs == {FsFresh, FsPrior, FsReadOnly, FsFileInWay}
InitFs == BaseFs \cup { [f EXCEPT !.files = @ \cup {SocketPath}] : f \in BaseFs }

(* fs::create_dir_all: Ok when the path is a directory already; otherwise  *)
(* the parents are created first, then the directory itself                *)
RECURSIVE create_dir_all(_, _)
create_dir_all(f, p) ==
    IF p \in f.dirs THEN [ok |-> TRUE, fs |-> f]
    ELSE IF p \in f.files \/ Len(p) = 0 THEN [ok |-> FALSE, fs |-> f]
    ELSE LET up == create_dir_all(f, Parent(p))
         IN  IF ~up.ok THEN up
             ELSE IF Parent(p) \in up.fs.ro THEN [ok |-> FALSE, fs |-> up.fs]
             ELSE [ok |-> TRUE, fs |-> [up.fs EXCEPT !.dirs = @ \cup {p}]]

(* Socket::file_exists and Socket::remove_file *)
file_exists(f, p) == p \in f.files
remove_file(f, p) ==
    IF p \in f.files /\ Parent(p) \notin f.ro
    THEN [ok |-> TRUE, fs |-> [f EXCEPT !.files = @ \ {p}]]
    ELSE [ok |-> FALSE, fs |-> f]

(* ------------------------------- panics -------------------------------- *)
(* A panic payload is a boxed value with a type.  Option::expect(msg)      *)
(* panics with the formatted message, Result::expect(msg) with             *)
(* "msg: {:?}" of the error, panic!("{}: {:?}", ..) with the formatted     *)
(* string: all three are formatted panics, whose payload is a String.      *)
(* Only a panic on a string literal carries a &'static str.                *)
DebugStr(s) == "\"" \o s \o "\""
OptionExpectPayload(msg) == [type |-> "String", text |-> msg]
ResultExpectPayload(msg, err) == [type |-> "String", text |-> msg \o ": " \o err]
FormatPayload(msg, detail) == [type |-> "String", text |-> msg \o ": " \o detail]

(* --------------------------- log level filter -------------------------- *)
get_log_level_filterMut(input) ==
    IF input = None THEN "Info"
    ELSE IF Unwrap(input) = "fatal" THEN "Fatal"
    ELSE IF Unwrap(input) = "error" THEN "Error"
    ELSE IF Unwrap(input) = "warning" THEN "Info"
    ELSE IF Unwrap(input) = "debug" THEN "Debug"
    ELSE "Info"

get_log_level_filter(input) ==
    IF input = None THEN "Info"
    ELSE IF Unwrap(input) = "fatal" THEN "Fatal"
    ELSE IF Unwrap(input) = "error" THEN "Error"
    ELSE IF Unwrap(input) = "warning" THEN "Warning"
    ELSE IF Unwrap(input) = "debug" THEN "Debug"
    ELSE "Info"

(* LogSettings::new(PROC_NAME, filter) *)
LogSettingsNew(name, filter) == [process_name |-> name, log_level_filter |-> filter]

(* get_args: clap's get_matches; None stands for clap ending the process   *)
get_args(av) ==
    IF ~av.malformed /\ IsSome(av.socket) /\ IsSome(av.loglevel)
    THEN Some([socket |-> av.socket, loglevel |-> av.loglevel, data_dir |-> av.data_dir])
    ELSE None

(* get_log_settings, given CHECK_ARGS and the forced ARG_MATCHES *)
get_log_settings(check_args, matches) ==
    IF check_args
    THEN LogSettingsNew(PROC_NAME, get_log_level_filter(matches.loglevel))
    ELSE LogSettingsNew(PROC_NAME, "Debug")

(* ---------------------------- data directory --------------------------- *)
(* map_or evaluates its default argument before it looks at the option:    *)
(* home_dir().expect(..) runs whether or not --data-dir was given          *)
get_data_dirMut(m, h, f) ==
    LET buf0 == IF m = None THEN Unwrap(h) \o <<DEFAULT_DATA_DIR_RELATIVE>> ELSE Unwrap(m)
        buf == buf0
        c == create_dir_all(f, buf)
    IN  IF h = None
        THEN [outcome |-> "panic", step |-> "home_dir", path |-> None, fs |-> f,
              payload |-> Some(OptionExpectPayload(GET_HOME_DIR_EXPECT))]
        ELSE IF c.ok
        THEN [outcome |-> "ok", step |-> "none", path |-> Some(buf), fs |-> c.fs,
              payload |-> None]
        ELSE [outcome |-> "panic", step |-> "create_dir_all", path |-> None, fs |-> c.fs,
              payload |-> Some(FormatPayload(CREATE_DATA_DIR_EXPECT, DebugStr(PathStr(buf))))]

get_data_dirOnceMut(m, h, f) ==
    LET buf0 == IF m = None THEN Unwrap(h) \o <<DEFAULT_DATA_DIR_RELATIVE>> ELSE Unwrap(m)
        buf == buf0 \o <<GLOBAL_STATE_DIR>>
        c == create_dir_all(f, buf)
    IN  IF h = None
        THEN [outcome |-> "panic", step |-> "home_dir", path |-> None, fs |-> f,
              payload |-> Some(OptionExpectPayload(GET_HOME_DIR_EXPECT))]
        ELSE IF c.ok /\ buf \notin f.dirs
        THEN [outcome |-> "ok", step |-> "none", path |-> Some(buf), fs |-> c.fs,
              payload |-> None]
        ELSE [outcome |-> "panic", step |-> "create_dir_all", path |-> None, fs |-> c.fs,
              payload |-> Some(FormatPayload(CREATE_DATA_DIR_EXPECT, DebugStr(PathStr(buf))))]

get_data_dir(m, h, f) ==
    LET buf0 == IF m = None THEN Unwrap(h) \o <<DEFAULT_DATA_DIR_RELATIVE>> ELSE Unwrap(m)
        buf == buf0 \o <<GLOBAL_STATE_DIR>>
        c == create_dir_all(f, buf)
    IN  IF h = None
        THEN [outcome |-> "panic", step |-> "home_dir", path |-> None, fs |-> f,
              payload |-> Some(OptionExpectPayload(GET_HOME_DIR_EXPECT))]
        ELSE IF c.ok
        THEN [outcome |-> "ok", step |-> "none", path |-> Some(buf), fs |-> c.fs,
              payload |-> None]
        ELSE [outcome |-> "panic", step |-> "create_dir_all", path |-> None, fs |-> c.fs,
              payload |-> Some(FormatPayload(CREATE_DATA_DIR_EXPECT, DebugStr(PathStr(buf))))]

(* ------------------------------- storage ------------------------------- *)
(* The store on disk under the data directory: whether it has a root, and  *)
(* the keys it holds.                                                      *)
SeedAddr == [i \in 1..AddrLen |-> SeedByte]
OtherAddr == [i \in 1..AddrLen |-> 1]
AccountKey(addr) == [tag |-> "Account", addr |-> addr]

(* storage::global_state::mocked_account: a map of one account record *)
mocked_account(addr) == { [key |-> AccountKey(addr), value |-> "Account"] }

EmptyStore == [root |-> FALSE, entries |-> {}]
PriorStore == [root |-> TRUE, entries |-> {AccountKey(SeedAddr), AccountKey(OtherAddr)}]

LmdbEnvironmentNew(path) == [path |-> path]
LmdbTrieStoreNew(env) == [environment |-> env, name |-> None, flags |-> "empty"]

(* LmdbGlobalState::from_pairs: seeds a store that has no root *)
from_pairsMut(env, trie, pairs, store) ==
    LET after == [root |-> TRUE, entries |-> store.entries \cup { kv.key : kv \in pairs }]
    IN  [store |-> after,
         global_state |-> [environment |-> env, trie_store |-> trie,
                           entries |-> { kv.key : kv \in pairs }]]

from_pairs(env, trie, pairs, store) ==
    LET after == IF store.root THEN store
                 ELSE [root |-> TRUE, entries |-> { kv.key : kv \in pairs }]
    IN  [store |-> after,
         global_state |-> [environment |-> env, trie_store |-> trie,
                           entries |-> after.entries]]

(* the seed get_engine_state hands to from_pairs *)
init_stateMut == mocked_account(SeedAddr) \cup mocked_account(OtherAddr)

init_stateZeroMut == mocked_account([i \in 1..AddrLen |-> 0])

init_state == mocked_account(SeedAddr)

EngineStateNew(gs) == [state |-> gs]
ServerNew(sock, es) == [socket |-> sock, engine_state |-> es]

(* -------------------------------- state -------------------------------- *)
VARIABLES
    argv,            \* the command line
    home,            \* what dirs::home_dir() answers
    fs,              \* the file system
    lmdb,            \* the store on disk under the data directory
    CHECK_ARGS, ARG_MATCHES, LOG_SETTINGS,    \* the statics
    panic_hook,      \* the installed hook, with the settings it captured
    pc,              \* where the main thread is
    socket, socket_existed, data_dir,         \* locals of main
    environment, trie_store, global_state, engine_state,
    server,          \* _server of main
    logged,          \* the calls of logging::log and logging::log_props, in order
    stderr,          \* what clap and the default panic hook write
    payload,         \* the payload of the panic of the main thread
    failed_step,     \* the step whose failure panicked
    exit_status,     \* the status the process ended with
    trace,           \* the steps the main thread has run, in order
    handler_panics,  \* panics of request-handling threads so far
    wakeups,         \* returns of std::thread::park so far
    calls            \* unit runs: the calls made and what they returned

statics == <<CHECK_ARGS, ARG_MATCHES, LOG_SETTINGS>>
locals == <<socket, socket_existed, data_dir>>
storage == <<environment, trie_store, global_state, engine_state>>
inputs == <<argv, home>>
failure == <<payload, failed_step>>
counters == <<handler_panics, wakeups>>
vars == <<argv, home, fs, lmdb, CHECK_ARGS, ARG_MATCHES, LOG_SETTINGS, panic_hook, pc,
          socket, socket_existed, data_dir, environment, trie_store, global_state,
          engine_state, server, logged, stderr, payload, failed_step, exit_status,
          trace, handler_panics, wakeups, calls>>

Quiet ==
    /\ CHECK_ARGS = FALSE /\ ARG_MATCHES = None /\ LOG_SETTINGS = None
    /\ panic_hook = None
    /\ socket = None /\ socket_existed = None /\ data_dir = None
    /\ environment = None /\ trie_store = None /\ global_state = None
    /\ engine_state = None /\ server = None
    /\ logged = <<>> /\ stderr = <<>>
    /\ payload = None /\ failed_step = "none" /\ exit_status = None
    /\ trace = <<>> /\ handler_panics = 0 /\ wakeups = 0 /\ calls = <<>>

Init ==
    /\ argv \in Argvs
    /\ home \in Homes
    /\ fs \in InitFs
    /\ lmdb \in IF DataPaths \subseteq fs.dirs THEN {EmptyStore, PriorStore} ELSE {EmptyStore}
    /\ pc = "start"
    /\ Quiet

(* ------------------------------- logging ------------------------------- *)
(* logging::log / logging::log_props: one record per call *)
LogRecord(thread, settings, level, message, properties) ==
    [thread |-> thread, settings |-> settings, level |-> level,
     message |-> message, properties |-> properties]

(* forcing the lazy statics: None stands for clap ending the process *)
ForcedMatches == IF IsSome(ARG_MATCHES) THEN ARG_MATCHES ELSE get_args(argv)
ForcedSettings ==
    IF IsSome(LOG_SETTINGS) THEN LOG_SETTINGS
    ELSE IF ~CHECK_ARGS THEN Some(get_log_settings(FALSE, None))
    ELSE IF ForcedMatches = None THEN None
    ELSE Some(get_log_settings(TRUE, Unwrap(ForcedMatches)))
MatchesAfterSettings ==
    IF IsSome(LOG_SETTINGS) \/ ~CHECK_ARGS THEN ARG_MATCHES ELSE ForcedMatches

(* clap prints the usage error and ends the process with status 1 *)
ClapExit ==
    /\ pc' = "exited"
    /\ exit_status' = Some(1)
    /\ stderr' = Append(stderr, "error: The following required arguments were not provided")
    /\ UNCHANGED <<statics, panic_hook, logged>>

(* log_server_info(message) on `thread`, continuing at `next` *)
log_server_infoDebugMut(thread, message, next) ==
    IF ForcedSettings = None THEN ClapExit
    ELSE /\ LOG_SETTINGS' = ForcedSettings
         /\ ARG_MATCHES' = MatchesAfterSettings
         /\ logged' = Append(logged,
                LogRecord(thread, Unwrap(ForcedSettings), "Debug", message, <<>>))
         /\ pc' = next
         /\ UNCHANGED <<CHECK_ARGS, panic_hook, stderr, exit_status>>

log_server_info(thread, message, next) ==
    IF ForcedSettings = None THEN ClapExit
    ELSE /\ LOG_SETTINGS' = ForcedSettings
         /\ ARG_MATCHES' = MatchesAfterSettings
         /\ logged' = Append(logged,
                LogRecord(thread, Unwrap(ForcedSettings), "Info", message, <<>>))
         /\ pc' = next
         /\ UNCHANGED <<CHECK_ARGS, panic_hook, stderr, exit_status>>

(* the closure set_panic_hook installs: what it logs for a payload *)
PanicHookLogs(thread, hook, p) ==
    (IF p.type = "str"
     THEN <<LogRecord(thread, hook.log_settings_panic, "Fatal", DebugStr(p.text), <<>>)>>
     ELSE <<>>)
    \o <<LogRecord(thread, Unwrap(LOG_SETTINGS), "Info", SERVER_STOP_MESSAGE, <<>>)>>

(* the default hook of the runtime, in force until set_hook replaces it *)
DefaultHookLine(thread, p) ==
    "thread '" \o thread \o "' panicked at '"
        \o (IF p.type = "other" THEN "Box<Any>" ELSE p.text) \o "'"

(* the main thread panics at `step` with payload p *)
PanicMut(step, p) ==
    /\ pc' = "log_listening"
    /\ payload' = Some(p)
    /\ failed_step' = step

Panic(step, p) ==
    /\ pc' = "panicking"
    /\ payload' = Some(p)
    /\ failed_step' = step

(* the order of the statements of get_grpc_server and get_engine_state *)
SuccPcMut(step) ==
    CASE step = "get_data_dir" -> "server_build"
      [] step = "server_build" -> "environment"
      [] step = "environment" -> "trie_store"
      [] step = "trie_store" -> "global_state"
      [] step = "global_state" -> "engine_state"
      [] step = "engine_state" -> "log_listening"

SuccPcRebuildMut(step) ==
    CASE step = "get_data_dir" -> "environment"
      [] step = "environment" -> "trie_store"
      [] step = "trie_store" -> "global_state"
      [] step = "global_state" -> "engine_state"
      [] step = "engine_state" -> "server_build"
      [] step = "server_build" -> "environment"

SuccPc(step) ==
    CASE step = "get_data_dir" -> "environment"
      [] step = "environment" -> "trie_store"
      [] step = "trie_store" -> "global_state"
      [] step = "global_state" -> "engine_state"
      [] step = "engine_state" -> "server_build"
      [] step = "server_build" -> "log_listening"

(* ------------------------- the steps of main --------------------------- *)
Step(name) == trace' = Append(trace, name)

(* CHECK_ARGS.store(true) *)
StoreCheckArgsMut ==
    /\ pc = "start"
    /\ pc' = "set_panic_hook"
    /\ Step("store_check_args")
    /\ UNCHANGED <<inputs, fs, lmdb, statics, panic_hook, locals, storage,
                   server, logged, stderr, failure, exit_status, counters, calls>>

StoreCheckArgs ==
    /\ pc = "start"
    /\ CHECK_ARGS' = TRUE
    /\ pc' = "set_panic_hook"
    /\ Step("store_check_args")
    /\ UNCHANGED <<inputs, fs, lmdb, ARG_MATCHES, LOG_SETTINGS, panic_hook, locals, storage,
                   server, logged, stderr, failure, exit_status, counters, calls>>

(* set_panic_hook: LOG_SETTINGS.clone() forces the statics, then set_hook *)
set_panic_hookMut ==
    /\ pc = "set_panic_hook"
    /\ IF ForcedSettings = None THEN ClapExit
       ELSE /\ LOG_SETTINGS' = ForcedSettings
            /\ ARG_MATCHES' = MatchesAfterSettings
            /\ pc' = "log_start"
            /\ UNCHANGED <<CHECK_ARGS, panic_hook, logged, stderr, exit_status>>
    /\ Step("set_panic_hook")
    /\ UNCHANGED <<inputs, fs, lmdb, locals, storage, server, failure, counters, calls>>

set_panic_hook ==
    /\ pc = "set_panic_hook"
    /\ IF ForcedSettings = None THEN ClapExit
       ELSE /\ LOG_SETTINGS' = ForcedSettings
            /\ ARG_MATCHES' = MatchesAfterSettings
            /\ panic_hook' = Some([log_settings_panic |-> Unwrap(ForcedSettings)])
            /\ pc' = "log_start"
            /\ UNCHANGED <<CHECK_ARGS, logged, stderr, exit_status>>
    /\ Step("set_panic_hook")
    /\ UNCHANGED <<inputs, fs, lmdb, locals, storage, server, failure, counters, calls>>

(* log_server_info(SERVER_START_MESSAGE) *)
LogStart ==
    /\ pc = "log_start"
    /\ log_server_info("main", SERVER_START_MESSAGE, "arg_matches")
    /\ Step("log_start")
    /\ UNCHANGED <<inputs, fs, lmdb, locals, storage, server, failure, counters, calls>>

(* let matches = &*ARG_MATCHES *)
DerefArgMatches ==
    /\ pc = "arg_matches"
    /\ IF ForcedMatches = None THEN ClapExit
       ELSE /\ ARG_MATCHES' = ForcedMatches
            /\ pc' = "get_socket"
            /\ UNCHANGED <<CHECK_ARGS, LOG_SETTINGS, panic_hook, logged, stderr, exit_status>>
    /\ Step("arg_matches")
    /\ UNCHANGED <<inputs, fs, lmdb, locals, storage, server, failure, counters, calls>>

(* get_socket: value_of(ARG_SOCKET).expect(ARG_SOCKET_EXPECT) *)
get_socket ==
    /\ pc = "get_socket"
    /\ IF Unwrap(ARG_MATCHES).socket = None
       THEN /\ Panic("get_socket", OptionExpectPayload(ARG_SOCKET_EXPECT))
            /\ UNCHANGED socket
       ELSE /\ socket' = Unwrap(ARG_MATCHES).socket
            /\ pc' = "file_exists"
            /\ UNCHANGED failure
    /\ Step("get_socket")
    /\ UNCHANGED <<inputs, fs, lmdb, statics, panic_hook, socket_existed, data_dir, storage,
                   server, logged, stderr, exit_status, counters, calls>>

(* if socket.file_exists() *)
SocketFileExists ==
    /\ pc = "file_exists"
    /\ socket_existed' = Some(file_exists(fs, Unwrap(socket)))
    /\ pc' = IF file_exists(fs, Unwrap(socket)) THEN "log_removing" ELSE "get_data_dir"
    /\ Step("file_exists")
    /\ UNCHANGED <<inputs, fs, lmdb, statics, panic_hook, socket, data_dir, storage, server,
                   logged, stderr, failure, exit_status, counters, calls>>

(* log_server_info(REMOVING_SOCKET_FILE_MESSAGE) *)
LogRemoving ==
    /\ pc = "log_removing"
    /\ log_server_info("main", REMOVING_SOCKET_FILE_MESSAGE, "remove_file")
    /\ Step("log_removing")
    /\ UNCHANGED <<inputs, fs, lmdb, locals, storage, server, failure, counters, calls>>

(* socket.remove_file().expect(REMOVING_SOCKET_FILE_EXPECT) *)
SocketRemoveFileMut ==
    /\ pc = "remove_file"
    /\ pc' = "get_data_dir"
    /\ Step("remove_file")
    /\ UNCHANGED <<inputs, fs, lmdb, statics, panic_hook, locals, storage, server, logged,
                   stderr, failure, exit_status, counters, calls>>

SocketRemoveFile ==
    /\ pc = "remove_file"
    /\ LET r == remove_file(fs, Unwrap(socket))
       IN  IF r.ok
           THEN /\ fs' = r.fs
                /\ pc' = "get_data_dir"
                /\ UNCHANGED failure
           ELSE /\ Panic("remove_file",
                         ResultExpectPayload(REMOVING_SOCKET_FILE_EXPECT, "PermissionDenied"))
                /\ UNCHANGED fs
    /\ Step("remove_file")
    /\ UNCHANGED <<inputs, lmdb, statics, panic_hook, locals, storage, server, logged, stderr,
                   exit_status, counters, calls>>

(* let data_dir = get_data_dir(matches) *)
GetDataDir ==
    /\ pc = "get_data_dir"
    /\ LET r == get_data_dir(Unwrap(ARG_MATCHES).data_dir, home, fs)
       IN  /\ fs' = r.fs
           /\ IF r.outcome = "ok"
              THEN /\ data_dir' = r.path
                   /\ pc' = SuccPc("get_data_dir")
                   /\ UNCHANGED failure
              ELSE /\ Panic(r.step, Unwrap(r.payload))
                   /\ UNCHANGED data_dir
    /\ Step("get_data_dir")
    /\ UNCHANGED <<inputs, lmdb, statics, panic_hook, socket, socket_existed, storage, server,
                   logged, stderr, exit_status, counters, calls>>

(* LmdbEnvironment::new(&data_dir).expect(LMDB_ENVIRONMENT_EXPECT) *)
EnvironmentNew ==
    /\ pc = "environment"
    /\ \E ok \in BOOLEAN :
         IF ok
         THEN /\ environment' = Some(LmdbEnvironmentNew(Unwrap(data_dir)))
              /\ pc' = SuccPc("environment")
              /\ UNCHANGED failure
         ELSE /\ Panic("environment", ResultExpectPayload(LMDB_ENVIRONMENT_EXPECT, "Error"))
              /\ UNCHANGED environment
    /\ Step("environment")
    /\ UNCHANGED <<inputs, fs, lmdb, statics, panic_hook, locals, trie_store, global_state,
                   engine_state, server, logged, stderr, exit_status, counters, calls>>

(* LmdbTrieStore::new(&environment, None, DatabaseFlags::empty()).expect(..) *)
TrieStoreNew ==
    /\ pc = "trie_store"
    /\ \E ok \in BOOLEAN :
         IF ok
         THEN /\ trie_store' = Some(LmdbTrieStoreNew(Unwrap(environment)))
              /\ pc' = SuccPc("trie_store")
              /\ UNCHANGED failure
         ELSE /\ Panic("trie_store", ResultExpectPayload(LMDB_TRIE_STORE_EXPECT, "Error"))
              /\ UNCHANGED trie_store
    /\ Step("trie_store")
    /\ UNCHANGED <<inputs, fs, lmdb, statics, panic_hook, locals, environment, global_state,
                   engine_state, server, logged, stderr, exit_status, counters, calls>>

(* LmdbGlobalState::from_pairs(environment, trie_store, &init_state).expect(..) *)
GlobalStateFromPairs ==
    /\ pc = "global_state"
    /\ \E ok \in BOOLEAN :
         IF ok
         THEN LET r == from_pairs(Unwrap(environment), Unwrap(trie_store), init_state, lmdb)
              IN  /\ global_state' = Some(r.global_state)
                  /\ lmdb' = r.store
                  /\ pc' = SuccPc("global_state")
                  /\ UNCHANGED failure
         ELSE /\ Panic("global_state", ResultExpectPayload(LMDB_GLOBAL_STATE_EXPECT, "Error"))
              /\ UNCHANGED <<global_state, lmdb>>
    /\ Step("global_state")
    /\ UNCHANGED <<inputs, fs, statics, panic_hook, locals, environment, trie_store,
                   engine_state, server, logged, stderr, exit_status, counters, calls>>

(* EngineState::new(global_state) *)
EngineStateNewStep ==
    /\ pc = "engine_state"
    /\ engine_state' = Some(EngineStateNew(Unwrap(global_state)))
    /\ pc' = SuccPc("engine_state")
    /\ Step("engine_state")
    /\ UNCHANGED <<inputs, fs, lmdb, statics, panic_hook, locals, environment, trie_store,
                   global_state, server, logged, stderr, failure, exit_status,
                   counters, calls>>

(* whether the server can bind the socket path *)
CanBind(f, p) == Parent(p) \in f.dirs /\ Parent(p) \notin f.ro /\ p \notin f.files \cup f.dirs

(* engine_server::new(socket.as_str(), engine_state).build().expect(..) *)
ServerBuild ==
    /\ pc = "server_build"
    /\ \E ok \in BOOLEAN :
         IF ok /\ CanBind(fs, Unwrap(socket))
         THEN /\ server' = Some(ServerNew(Unwrap(socket), engine_state))
              /\ fs' = [fs EXCEPT !.files = @ \cup {Unwrap(socket)}]
              /\ pc' = SuccPc("server_build")
              /\ UNCHANGED failure
         ELSE /\ Panic("server_build", ResultExpectPayload(SERVER_START_EXPECT, "Error"))
              /\ UNCHANGED <<server, fs>>
    /\ Step("server_build")
    /\ UNCHANGED <<inputs, lmdb, statics, panic_hook, locals, storage, logged, stderr,
                   exit_status, counters, calls>>

(* log_listening_message(&socket) *)
log_listening_messageMut ==
    /\ pc = "log_listening"
    /\ logged' = Append(logged,
           LogRecord("main", Unwrap(LOG_SETTINGS), "Info", SERVER_LISTENING_TEMPLATE,
                     << <<"listener", PROC_NAME>> >>))
    /\ pc' = "loop"
    /\ Step("log_listening")
    /\ UNCHANGED <<inputs, fs, lmdb, statics, panic_hook, locals, storage, server, stderr,
                   failure, exit_status, counters, calls>>

log_listening_message ==
    /\ pc = "log_listening"
    /\ logged' = Append(logged,
           LogRecord("main", Unwrap(LOG_SETTINGS), "Info", SERVER_LISTENING_TEMPLATE,
                     << <<"listener", PROC_NAME>>, <<"socket", PathStr(Unwrap(socket))>> >>))
    /\ pc' = "loop"
    /\ Step("log_listening")
    /\ UNCHANGED <<inputs, fs, lmdb, statics, panic_hook, locals, storage, server, stderr,
                   failure, exit_status, counters, calls>>

(* loop { std::thread::park(); }: the call, and a return from it *)
ParkReturnMut ==
    /\ pc = "parked"
    /\ pc' = "exited"
    /\ server' = None
    /\ exit_status' = Some(0)
    /\ wakeups < MaxWakeups
    /\ wakeups' = wakeups + 1
    /\ Step("return")
    /\ UNCHANGED <<inputs, fs, lmdb, statics, panic_hook, locals, storage, logged, stderr,
                   failure, handler_panics, calls>>

ParkCall ==
    /\ pc = "loop"
    /\ pc' = "parked"
    /\ UNCHANGED <<inputs, fs, lmdb, statics, panic_hook, locals, storage, server, logged,
                   stderr, failure, exit_status, trace, counters, calls>>

ParkReturn ==
    /\ pc = "parked"
    /\ wakeups < MaxWakeups
    /\ pc' = "loop"
    /\ wakeups' = wakeups + 1
    /\ UNCHANGED <<inputs, fs, lmdb, statics, panic_hook, locals, storage, server, logged,
                   stderr, failure, exit_status, trace, handler_panics, calls>>

(* ------------------------------ the panic ------------------------------ *)
(* the runtime calls the hook in force with the payload, then unwinds *)
RunPanicHook ==
    /\ pc = "panicking"
    /\ IF IsSome(panic_hook)
       THEN /\ logged' = logged \o PanicHookLogs("main", Unwrap(panic_hook), Unwrap(payload))
            /\ UNCHANGED stderr
       ELSE /\ stderr' = Append(stderr, DefaultHookLine("main", Unwrap(payload)))
            /\ UNCHANGED logged
    /\ pc' = "unwinding"
    /\ UNCHANGED <<inputs, fs, lmdb, statics, panic_hook, locals, storage, server, failure,
                   exit_status, trace, counters, calls>>

(* the panic of the main thread ends the process with status 101 *)
ProcessAbort ==
    /\ pc = "unwinding"
    /\ pc' = "exited"
    /\ exit_status' = Some(101)
    /\ UNCHANGED <<inputs, fs, lmdb, statics, panic_hook, locals, storage, server, logged,
                   stderr, failure, trace, counters, calls>>

(* a thread of the running server panics; the hook is process-wide *)
HandlerPayloads ==
    { [type |-> "str", text |-> "handler failed"],
      [type |-> "String", text |-> "handler failed: Error"],
      [type |-> "other", text |-> ""] }

HandlerPanic ==
    /\ IsSome(server)
    /\ pc \in {"log_listening", "loop", "parked"}
    /\ handler_panics < MaxHandlerPanics
    /\ \E p \in HandlerPayloads :
         IF IsSome(panic_hook)
         THEN /\ logged' = logged \o PanicHookLogs("handler", Unwrap(panic_hook), p)
              /\ UNCHANGED stderr
         ELSE /\ stderr' = Append(stderr, DefaultHookLine("handler", p))
              /\ UNCHANGED logged
    /\ handler_panics' = handler_panics + 1
    /\ UNCHANGED <<inputs, fs, lmdb, statics, panic_hook, pc, locals, storage, server,
                   failure, exit_status, trace, wakeups, calls>>

Next ==
    \/ StoreCheckArgs
    \/ set_panic_hook
    \/ LogStart
    \/ DerefArgMatches
    \/ get_socket
    \/ SocketFileExists
    \/ LogRemoving
    \/ SocketRemoveFile
    \/ GetDataDir
    \/ EnvironmentNew
    \/ TrieStoreNew
    \/ GlobalStateFromPairs
    \/ EngineStateNewStep
    \/ ServerBuild
    \/ log_listening_message
    \/ ParkCall
    \/ ParkReturn
    \/ RunPanicHook
    \/ ProcessAbort
    \/ HandlerPanic

Spec == Init /\ [][Next]_vars

(* ------------------- unit runs of the pure functions ------------------- *)
(* get_log_level_filter and get_data_dir called directly, up to MaxCalls   *)
(* times, on a file system and a home directory drawn like those of Init   *)
InitFn ==
    /\ argv \in InvalidArgv
    /\ home \in Homes
    /\ fs \in InitFs
    /\ lmdb = EmptyStore
    /\ pc = "unit"
    /\ Quiet

main_state == <<argv, home, lmdb, statics, panic_hook, pc, locals, storage, server, logged,
                stderr, failure, exit_status, trace, counters>>

CallGetLogLevelFilter ==
    /\ pc = "unit"
    /\ Len(calls) < MaxCalls
    /\ \E input \in LogLevelInputs :
         calls' = Append(calls,
             [fn |-> "get_log_level_filter", input |-> input, outcome |-> "ok",
              level |-> get_log_level_filter(input), path |-> None, step |-> "none",
              fs_before |-> fs])
    /\ UNCHANGED <<main_state, fs>>

CallGetDataDir ==
    /\ pc = "unit"
    /\ Len(calls) < MaxCalls
    /\ \E m \in DataDirArgs :
         LET r == get_data_dir(m, home, fs)
         IN  /\ fs' = r.fs
             /\ calls' = Append(calls,
                    [fn |-> "get_data_dir", input |-> m, outcome |-> r.outcome,
                     level |-> "", path |-> r.path, step |-> r.step, fs_before |-> fs])
    /\ UNCHANGED main_state

NextFn == CallGetLogLevelFilter \/ CallGetDataDir

SpecFn == InitFn /\ [][NextFn]_vars

(* ------------------------------ properties ----------------------------- *)
InTrace(n) == \E i \in 1..Len(trace) : trace[i] = n
Pos(n) == CHOOSE i \in 1..Len(trace) : trace[i] = n
Count(n) == Cardinality({ i \in 1..Len(trace) : trace[i] = n })
Before(a, b) == InTrace(a) /\ InTrace(b) /\ Pos(a) < Pos(b)
Logged(thread, level, message) ==
    \E i \in 1..Len(logged) :
        /\ logged[i].thread = thread
        /\ logged[i].level = level
        /\ logged[i].message = message
MainLog == SelectSeq(logged, LAMBDA r : r.thread = "main")
BlockedPc == {"loop", "parked"}
AbortPc == {"panicking", "unwinding", "exited"}
(* the step of main in which a failure arises *)
StepOf(f) == IF f \in {"home_dir", "create_dir_all"} THEN "get_data_dir" ELSE f

(* C1: the server is built only after the environment, the trie store,    *)
(* the global state and the engine state were built, in that order, each  *)
(* on the one before; no state has a server and a missing or failed       *)
(* storage layer.                                                         *)
C1_ServerAfterStorage ==
    /\ IsSome(trie_store) =>
          /\ IsSome(environment)
          /\ Before("environment", "trie_store")
          /\ Unwrap(trie_store).environment = Unwrap(environment)
    /\ IsSome(global_state) =>
          /\ IsSome(trie_store)
          /\ Before("trie_store", "global_state")
          /\ Unwrap(global_state).trie_store = Unwrap(trie_store)
          /\ Unwrap(global_state).environment = Unwrap(environment)
    /\ IsSome(engine_state) =>
          /\ IsSome(global_state)
          /\ Before("global_state", "engine_state")
          /\ Unwrap(engine_state).state = Unwrap(global_state)
    /\ (IsSome(server) \/ InTrace("server_build") \/ pc = "server_build") =>
          /\ IsSome(environment) /\ IsSome(trie_store)
          /\ IsSome(global_state) /\ IsSome(engine_state)
          /\ failed_step \notin {"environment", "trie_store", "global_state"}
    /\ IsSome(server) =>
          /\ Before("engine_state", "server_build")
          /\ Unwrap(server).engine_state = engine_state

C1_Witness == IsSome(server) /\ pc = "parked"

(* C2: once a start-up step has failed, main is aborting: the failed step *)
(* is the last step main ever ran and it ran once, the listening          *)
(* confirmation is not logged, and main is not listening or blocked.      *)
C2_FailFast ==
    failed_step # "none" =>
        /\ pc \in AbortPc
        /\ trace[Len(trace)] = StepOf(failed_step)
        /\ Count(StepOf(failed_step)) = 1
        /\ ~InTrace("log_listening")
        /\ ~Logged("main", "Info", SERVER_LISTENING_TEMPLATE)
        /\ server = None

C2_Witness == failed_step = "global_state" /\ pc = "exited"

(* C3: when the check found a file at the socket path, the removal was    *)
(* logged and then done before the bind begins, and at the bind no file   *)
(* is there; when the check found none, nothing was logged or removed.    *)
C3_StaleSocketRemoved ==
    /\ (socket_existed = Some(TRUE) /\ (pc = "server_build" \/ InTrace("server_build"))) =>
          /\ Logged("main", "Info", REMOVING_SOCKET_FILE_MESSAGE)
          /\ Before("log_removing", "remove_file")
          /\ failed_step # "remove_file"
    /\ pc = "server_build" => Unwrap(socket) \notin fs.files
    /\ socket_existed # Some(TRUE) =>
          /\ ~Logged("main", "Info", REMOVING_SOCKET_FILE_MESSAGE)
          /\ ~InTrace("log_removing")
          /\ ~InTrace("remove_file")

C3_Witness == socket_existed = Some(TRUE) /\ IsSome(server)

(* C4: from the listening confirmation on main is blocked, with the       *)
(* server alive and the process running; a blocked main stays blocked     *)
(* and changes nothing but its position in the park loop.                 *)
StaysBlocked ==
    pc \in BlockedPc =>
        /\ pc' \in BlockedPc
        /\ MainLog' = MainLog
        /\ UNCHANGED <<fs, lmdb, statics, panic_hook, locals, storage, server,
                       stderr, failure, exit_status, trace>>

C4_BlockedForever ==
    /\ [](InTrace("log_listening") =>
              (pc \in BlockedPc /\ IsSome(server) /\ exit_status = None))
    /\ [][StaysBlocked]_vars

C4_Witness == pc = "parked" /\ wakeups >= 1

(* C5: a process ended by a failed start-up step has a non-zero status    *)
(* and the message of that failure was emitted, by the hook at Fatal      *)
(* level or by the default hook on stderr.                                *)
C5_FatalErrorsDescribed ==
    (pc = "exited" /\ failed_step # "none") =>
        /\ IsSome(exit_status) /\ Unwrap(exit_status) # 0
        /\ \/ Logged("main", "Fatal", DebugStr(Unwrap(payload).text))
           \/ \E i \in 1..Len(stderr) : stderr[i] = DefaultHookLine("main", Unwrap(payload))

(* C6: after the hook ran for a panic of main whose payload is text, the  *)
(* log holds the payload at Fatal level and, after it, the stopping       *)
(* message; the process ends only after both.                             *)
C6_HookLogsTextPayload ==
    (pc \in {"unwinding", "exited"} /\ IsSome(panic_hook) /\ IsSome(payload)
        /\ Unwrap(payload).type \in {"str", "String"}) =>
        \E i, j \in 1..Len(logged) :
            /\ i < j
            /\ logged[i].thread = "main" /\ logged[i].level = "Fatal"
            /\ logged[i].message = DebugStr(Unwrap(payload).text)
            /\ logged[j].thread = "main" /\ logged[j].message = SERVER_STOP_MESSAGE

(* C7: get_log_level_filter gives fatal, error, warning and debug their   *)
(* own level and every other string, and the absent value, Info.          *)
C7_LogLevelFilter ==
    \A i \in 1..Len(calls) :
        calls[i].fn = "get_log_level_filter" =>
            LET inp == calls[i].input
                lvl == calls[i].level
            IN  /\ calls[i].outcome = "ok"
                /\ inp = Some("fatal") => lvl = "Fatal"
                /\ inp = Some("error") => lvl = "Error"
                /\ inp = Some("warning") => lvl = "Warning"
                /\ inp = Some("debug") => lvl = "Debug"
                /\ inp \notin {Some("fatal"), Some("error"), Some("warning"), Some("debug")}
                      => lvl = "Info"

C7_Witness ==
    \E i, j \in 1..Len(calls) :
        /\ calls[i].fn = "get_log_level_filter" /\ calls[i].input = Some("warning")
        /\ calls[j].fn = "get_log_level_filter" /\ calls[j].input = Some("DEBUG")
        /\ calls[j].level = "Info"

(* C8: a get_data_dir that returns, returns <home>/.casperlabs/global_state *)
(* without --data-dir and <DIR>/global_state with it, and that path is    *)
(* then a directory, with all its parents.                                *)
C8_DataDirPath ==
    \A i \in 1..Len(calls) :
        (calls[i].fn = "get_data_dir" /\ calls[i].outcome = "ok") =>
            LET expected ==
                    IF calls[i].input = None
                    THEN Unwrap(home) \o <<".casperlabs", "global_state">>
                    ELSE Unwrap(calls[i].input) \o <<"global_state">>
            IN  /\ calls[i].path = Some(expected)
                /\ Prefixes(expected) \subseteq fs.dirs
                /\ expected \notin fs.files

C8_Witness ==
    \E i \in 1..Len(calls) :
        /\ calls[i].fn = "get_data_dir" /\ calls[i].outcome = "ok"
        /\ calls[i].input = None
        /\ Parent(Unwrap(calls[i].path)) \notin calls[i].fs_before.dirs
        /\ Unwrap(calls[i].path) \in fs.dirs

(* C9: with --data-dir given, get_data_dir does not fail on the home      *)
(* directory, and when it returns it returns <DIR>/global_state.          *)
C9_HomeOnlyWhenDataDirAbsent ==
    (InTrace("get_data_dir") /\ Unwrap(ARG_MATCHES).data_dir # None) =>
        /\ failed_step # "home_dir"
        /\ failed_step = "none" =>
              data_dir = Some(Unwrap(Unwrap(ARG_MATCHES).data_dir) \o <<"global_state">>)

(* C10: building the global state on a store without a root leaves the    *)
(* store, and the global state, with the seed account as the only entry.  *)
SeedsEmptyStore ==
    (global_state = None /\ IsSome(global_state') /\ ~lmdb.root) =>
        /\ Unwrap(global_state').entries = {AccountKey(SeedAddr)}
        /\ lmdb'.root
        /\ lmdb'.entries = {AccountKey(SeedAddr)}

C10_EmptyStoreSeeded == [][SeedsEmptyStore]_vars

C10_Witness ==
    /\ IsSome(global_state)
    /\ Unwrap(global_state).entries = {AccountKey(SeedAddr)}
    /\ lmdb = [root |-> TRUE, entries |-> {AccountKey(SeedAddr)}]

(* C11: building the global state on a store that has a root leaves the   *)
(* store as it was, and the global state shows the entries the store had; *)
(* no step of start-up changes a store that has a root.                   *)
KeepsRootedStore ==
    /\ lmdb.root => lmdb' = lmdb
    /\ (global_state = None /\ IsSome(global_state') /\ lmdb.root) =>
          Unwrap(global_state').entries = lmdb.entries

C11_NoReseed == [][KeepsRootedStore]_vars

C11_Witness ==
    /\ IsSome(global_state)
    /\ lmdb = PriorStore
    /\ Unwrap(global_state).entries = PriorStore.entries
    /\ pc = "parked"

(* C12: the listening confirmation is logged at most once, by main, after *)
(* the server was built, with the properties listener (the process name)  *)
(* and socket (the socket path of the command line, /tmp/sock) and no     *)
(* other; a blocked main has logged it exactly once.                      *)
ListeningRecords == { i \in 1..Len(logged) : logged[i].message = SERVER_LISTENING_TEMPLATE }

C12_ListeningLoggedOnce ==
    /\ Cardinality(ListeningRecords) <= 1
    /\ pc \in BlockedPc => Cardinality(ListeningRecords) = 1
    /\ \A i \in ListeningRecords :
          /\ logged[i].thread = "main"
          /\ logged[i].properties =
                << <<"listener", "casperlabs-engine-grpc-server">>, <<"socket", "/tmp/sock">> >>
          /\ IsSome(server)
          /\ Before("server_build", "log_listening")
          /\ failed_step = "none"

C12_Witness == pc = "parked" /\ Cardinality(ListeningRecords) = 1 /\ wakeups >= 1

(* C13: on a command line that lacks the socket or --loglevel or carries  *)
(* a malformed flag, nothing is logged, no hook is installed, the file    *)
(* system and the store stay as they were and no storage or server        *)
(* object exists; main gets no further than forcing the statics, where    *)
(* clap ends the process with a usage error.                              *)
ArgvInvalid == argv.malformed \/ argv.socket = None \/ argv.loglevel = None

NothingStarted ==
    /\ logged = <<>>
    /\ panic_hook = None
    /\ ARG_MATCHES = None /\ LOG_SETTINGS = None
    /\ socket = None /\ data_dir = None
    /\ environment = None /\ trie_store = None /\ global_state = None
    /\ engine_state = None /\ server = None
    /\ failed_step = "none"
    /\ pc \in {"start", "set_panic_hook", "exited"}
    /\ pc = "exited" => (exit_status = Some(1) /\ Len(stderr) = 1)

DiskUntouched == ArgvInvalid => (fs' = fs /\ lmdb' = lmdb)

C13_InvalidArgsStartNothing ==
    /\ [](ArgvInvalid => NothingStarted)
    /\ [][DiskUntouched]_vars

C13_Witness == ArgvInvalid /\ pc = "exited" /\ file_exists(fs, SocketPath)

(* C14: when a call of get_data_dir returned, a later call with the same  *)
(* input returns too, with the same path, which is a directory, and the   *)
(* later call finds the file system as the earlier one left it or larger  *)
(* and, when it follows at once, changes nothing in it.                   *)
C14_DataDirIdempotent ==
    \A i, j \in 1..Len(calls) :
        (/\ i < j
         /\ calls[i].fn = "get_data_dir" /\ calls[j].fn = "get_data_dir"
         /\ calls[i].input = calls[j].input
         /\ calls[i].outcome = "ok") =>
            /\ calls[j].outcome = "ok"
            /\ calls[j].path = calls[i].path
            /\ Unwrap(calls[j].path) \in fs.dirs
            /\ Unwrap(calls[j].path) \in calls[j].fs_before.dirs
            /\ (j = i + 1 /\ j = Len(calls)) => fs = calls[j].fs_before

C14_Witness ==
    \E i, j \in 1..Len(calls) :
        /\ j = i + 1
        /\ calls[i].fn = "get_data_dir" /\ calls[j].fn = "get_data_dir"
        /\ calls[i].input = calls[j].input
        /\ calls[i].outcome = "ok" /\ calls[j].outcome = "ok"
        /\ Unwrap(calls[i].path) \notin calls[i].fs_before.dirs

(* C15 as stated: the stale socket file is removed only after the data    *)
(* directory is resolved and the storage is built, so a failure of the    *)
(* directory creation or of the storage leaves the socket file in place.  *)
BootstrapFailures == {"home_dir", "create_dir_all", "environment", "trie_store", "global_state"}

C15_RemovalAfterBootstrap ==
    /\ InTrace("remove_file") =>
          (Before("get_data_dir", "remove_file") /\ Before("engine_state", "remove_file"))
    /\ (failed_step \in BootstrapFailures /\ socket_existed = Some(TRUE)) =>
          SocketPath \in fs.files

(* C15 amended: main runs its steps in the order of the source: the       *)
(* statics and the hook, the start message, the socket argument, the      *)
(* stale socket check and removal, then the data directory, the storage   *)
(* layers, the server, the listening message; a failure of the directory  *)
(* creation or of the storage comes after the removal of a socket file    *)
(* that existed.                                                          *)
Rank(step) ==
    CASE step = "store_check_args" -> 1
      [] step = "set_panic_hook" -> 2
      [] step = "log_start" -> 3
      [] step = "arg_matches" -> 4
      [] step = "get_socket" -> 5
      [] step = "file_exists" -> 6
      [] step = "log_removing" -> 7
      [] step = "remove_file" -> 8
      [] step = "get_data_dir" -> 9
      [] step = "environment" -> 10
      [] step = "trie_store" -> 11
      [] step = "global_state" -> 12
      [] step = "engine_state" -> 13
      [] step = "server_build" -> 14
      [] step = "log_listening" -> 15
      [] OTHER -> 0

C15_StartupOrder ==
    /\ \A i, j \in 1..Len(trace) : i < j => Rank(trace[i]) < Rank(trace[j])
    /\ \A i \in 1..Len(trace) : Rank(trace[i]) > 0
    /\ (failed_step \in BootstrapFailures /\ socket_existed = Some(TRUE)) =>
          /\ Before("remove_file", "get_data_dir")
          /\ SocketPath \notin fs.files

C15_Witness ==
    /\ failed_step = "create_dir_all" /\ socket_existed = Some(TRUE)
    /\ pc = "exited" /\ SocketPath \notin fs.files

(* C16: every step of main that can panic runs after set_panic_hook, a    *)
(* panic of main finds the hook installed, and the hook, not the default  *)
(* hook of the runtime, has run by the time the main thread unwinds.      *)
PanickingSteps ==
    {"get_socket", "remove_file", "get_data_dir", "environment", "trie_store", "global_state",
     "server_build"}

C16_HookBeforePanics ==
    /\ \A s \in PanickingSteps : InTrace(s) => Before("set_panic_hook", s)
    /\ failed_step # "none" =>
          /\ StepOf(failed_step) \in PanickingSteps
          /\ IsSome(panic_hook)
    /\ (failed_step # "none" /\ pc \in {"unwinding", "exited"}) =>
          /\ Logged("main", "Info", SERVER_STOP_MESSAGE)
          /\ stderr = <<>>

C16_Witness == failed_step = "remove_file" /\ pc = "unwinding" /\ IsSome(panic_hook)

(* C17: the environment, the trie store, the global state, the engine     *)
(* state and the server are each built at most once; the global state     *)
(* holds the environment and the trie store that were built, the engine   *)
(* state that global state, the server that engine state; a blocked main  *)
(* has run no step since the listening message.                           *)
BuildSteps == {"environment", "trie_store", "global_state", "engine_state", "server_build"}

C17_BuiltOnceAndShared ==
    /\ \A s \in BuildSteps : Count(s) <= 1
    /\ IsSome(global_state) =>
          /\ Unwrap(global_state).environment = Unwrap(environment)
          /\ Unwrap(global_state).trie_store = Unwrap(trie_store)
          /\ Unwrap(trie_store).environment = Unwrap(environment)
    /\ IsSome(server) =>
          /\ Unwrap(server).engine_state = engine_state
          /\ Unwrap(engine_state).state = Unwrap(global_state)
    /\ pc \in BlockedPc =>
          /\ trace[Len(trace)] = "log_listening"
          /\ \A s \in BuildSteps : Count(s) = 1

C17_Witness == pc = "loop" /\ wakeups >= 1 /\ IsSome(server) /\ handler_panics >= 1

(* C18 as stated: the seed handed to from_pairs is one account record     *)
(* whose 20 address bytes are all 0, and a store seeded by the run holds  *)
(* that account.                                                          *)
FilledAddr(b) == [i \in 1..20 |-> b]
OneAccount(addr) == { [key |-> [tag |-> "Account", addr |-> addr], value |-> "Account"] }
SeededByRun == IsSome(global_state) /\ Cardinality(Unwrap(global_state).entries) = 1

C18_SeedAllZero ==
    /\ pc = "global_state" => init_state = OneAccount(FilledAddr(0))
    /\ SeededByRun =>
          Unwrap(global_state).entries = {[tag |-> "Account", addr |-> FilledAddr(0)]}

(* C18 amended: the seed is one account record whose 20 address bytes are *)
(* all 48 (the ASCII digit 0), on every run, and a store seeded by the    *)
(* run holds that account.                                                *)
C18_SeedAllAsciiZero ==
    /\ pc = "global_state" => init_state = OneAccount(FilledAddr(48))
    /\ SeededByRun =>
          Unwrap(global_state).entries = {[tag |-> "Account", addr |-> FilledAddr(48)]}

C18_Witness == SeededByRun /\ lmdb.root /\ pc = "engine_state"

(* C19 as stated: in the run on /tmp/sock --loglevel debug the starting   *)
(* message is logged at debug level, before the storage is built, the     *)
(* server is started and the listening message is logged.                 *)
EndToEndArgv ==
    argv = [malformed |-> FALSE, socket |-> Some(<<"tmp", "sock">>),
            loglevel |-> Some("debug"), data_dir |-> None]
StartRecords == { i \in 1..Len(logged) : logged[i].message = "starting Execution Engine Server" }
StartLoggedFirst ==
    /\ Cardinality(StartRecords) <= 1
    /\ \A s \in BuildSteps \cup {"get_data_dir", "log_listening"} :
          InTrace(s) => (Before("log_start", s) /\ StartRecords # {})
    /\ \A i \in StartRecords : \A j \in ListeningRecords : i < j

C19_StartLoggedAtDebug ==
    EndToEndArgv =>
        /\ \A i \in StartRecords : logged[i].level = "Debug"
        /\ StartLoggedFirst

(* C19 amended: in that run the starting message is logged at Info level, *)
(* through settings whose filter is Debug, before the storage is built,   *)
(* the server is started and the listening message is logged.             *)
C19_StartLoggedAtInfo ==
    EndToEndArgv =>
        /\ \A i \in StartRecords :
              /\ logged[i].level = "Info"
              /\ logged[i].thread = "main"
              /\ logged[i].settings.log_level_filter = "Debug"
        /\ StartLoggedFirst

C19_Witness ==
    /\ EndToEndArgv /\ pc = "parked"
    /\ StartRecords # {} /\ ListeningRecords # {}
    /\ HomePath \o <<".casperlabs", "global_state">> \in fs.dirs

(* C20: LOG_SETTINGS is initialised only with CHECK_ARGS true, to the     *)
(* process name and the level of the --loglevel token, once (it is        *)
(* initialised from set_panic_hook on and never changes); the hook holds  *)
(* a copy equal to it, and every log call used it.                        *)
ExpectedFilter ==
    CASE argv.loglevel = Some("fatal") -> "Fatal"
      [] argv.loglevel = Some("error") -> "Error"
      [] argv.loglevel = Some("warning") -> "Warning"
      [] argv.loglevel = Some("debug") -> "Debug"
      [] OTHER -> "Info"

LogSettingsFromArgs ==
    /\ IsSome(LOG_SETTINGS) =>
          /\ CHECK_ARGS /\ InTrace("store_check_args")
          /\ IsSome(ARG_MATCHES)
          /\ Unwrap(LOG_SETTINGS) =
                [process_name |-> "casperlabs-engine-grpc-server",
                 log_level_filter |-> ExpectedFilter]
    /\ (~ArgvInvalid /\ InTrace("set_panic_hook")) => IsSome(LOG_SETTINGS)
    /\ IsSome(panic_hook) =>
          /\ IsSome(LOG_SETTINGS)
          /\ Unwrap(panic_hook).log_settings_panic = Unwrap(LOG_SETTINGS)
    /\ \A i \in 1..Len(logged) :
          IsSome(LOG_SETTINGS) /\ logged[i].settings = Unwrap(LOG_SETTINGS)

LogSettingsKept == IsSome(LOG_SETTINGS) => LOG_SETTINGS' = LOG_SETTINGS

C20_LogSettingsOnce == []LogSettingsFromArgs /\ [][LogSettingsKept]_vars

C20_Witness ==
    /\ argv.loglevel = Some("warning")
    /\ failed_step = "environment" /\ pc = "exited"
    /\ Len(logged) >= 2
    /\ Unwrap(LOG_SETTINGS).log_level_filter = "Warning"

====
